---- MODULE Spec2Model ----
(***************************************************************************)
(* Validation and normalisation of the telescope CLI configuration:        *)
(*   src/src/validation.ts  formatZodError, parseCLIOption, parseUnknown   *)
(*                          and the schemas (CookieSchema ... )            *)
(*   src/src/config.ts      normalizeCLIConfig (both definitions the file  *)
(*                          holds) and parseJSONArrayOrCommaSeparatedStrings*)
(*                                                                         *)
(* Texts.  A JavaScript string is a sequence of lexical units.  Every      *)
(* character that JSON.parse, String.prototype.split or includes('[')      *)
(* looks at is a unit of its own ( [ ] { } , : " ' and the blank); a       *)
(* maximal run of other characters (a word, a numeral) is one unit.        *)
(* Concatenation is \o, a template literal is the \o of its parts.         *)
(***************************************************************************)
EXTENDS Integers, Sequences, FiniteSets, TLC

\* call: the operation invoked and its arguments; pc: "called" until the operation
\* has run, then "done"; result: what it returned or threw
VARIABLES call, pc, result, heap, given, returned, mutations

\* the mutable data of the process: the arrays and objects that exist, the option
\* records callers built, the records normalizeCLIConfig returned, and how often
\* a caller changed one of them
hvars == <<heap, given, returned, mutations>>

vars == <<call, pc, result, heap, given, returned, mutations>>

(***************************************************************************)
(* Bounds of the model.                                                    *)
(***************************************************************************)
\* numerals 0..MaxNumeral are the JSON numbers of the inputs
MaxNumeral == 3
\* formatZodError is exercised on issue lists of up to MaxIssues issues
MaxIssues == 2
\* every text of at most MaxFuzzLen units over FuzzUnits is an input of parseCLIOption
MaxFuzzLen == 2
\* the digit strings of the numeric inputs are 0..MaxDigits, "10", "14" and "42"
MaxDigits == 5
\* every text of at most MaxNumberLen units over NumberUnits is a numeric input
MaxNumberLen == 3
\* normalizeCLIConfig is called up to MaxCalls times in one process
MaxCalls == 2
\* callers change a returned record up to MaxMutations times
MaxMutations == 1

(***************************************************************************)
(* JavaScript values.                                                      *)
(***************************************************************************)
Undefined == [t |-> "undefined"]
Null == [t |-> "null"]
Bool(b) == [t |-> "boolean", b |-> b]
Num(n) == [t |-> "number", n |-> n]
Str(s) == [t |-> "string", s |-> s]
Arr(items) == [t |-> "array", items |-> items]
\* an object is the sequence of its own properties in property order
Obj(entries) == [t |-> "object", entries |-> entries]
Prop(k, v) == [k |-> k, v |-> v]

\* ToBoolean: what `if (x)` and `x || y` test
Truthy(v) ==
  CASE v.t = "undefined" -> FALSE
    [] v.t = "null" -> FALSE
    [] v.t = "boolean" -> v.b
    [] v.t = "number" -> v.n # 0
    [] v.t = "string" -> v.s # <<>>
    [] OTHER -> TRUE

\* a falsy check where the code checks for undefined and null
CoalesceFalsy(a, b) == IF Truthy(a) THEN a ELSE b

\* a ?? b
Coalesce(a, b) == IF a.t \in {"undefined", "null"} THEN b ELSE a

\* a || b
OrElse(a, b) == IF Truthy(a) THEN a ELSE b

HasKey(entries, k) == \E i \in 1..Len(entries) : entries[i].k = k

KeyIndex(entries, k) == CHOOSE i \in 1..Len(entries) : entries[i].k = k

\* obj[k], Undefined when the object has no such property
Get(entries, k) == IF HasKey(entries, k) THEN entries[KeyIndex(entries, k)].v ELSE Undefined

\* obj[k] = v : an existing property keeps its place, a new one goes last
Put(entries, k, v) ==
  IF HasKey(entries, k)
  THEN [entries EXCEPT ![KeyIndex(entries, k)] = Prop(k, v)]
  ELSE Append(entries, Prop(k, v))

(***************************************************************************)
(* JSON.parse (ECMA-404 grammar over units), the engine's part of          *)
(* parseCLIOption and parseJSONArrayOrCommaSeparatedStrings.               *)
(***************************************************************************)
Numerals == 0..MaxNumeral

IsNumeral(u) == \E n \in Numerals : ToString(n) = u

NumeralValue(u) == CHOOSE n \in Numerals : ToString(n) = u

RECURSIVE SkipWs(_, _)
SkipWs(s, i) == IF i <= Len(s) /\ s[i] = " " THEN SkipWs(s, i + 1) ELSE i

\* index of the quote closing the string literal opened before i, 0 when none
RECURSIVE ClosingQuote(_, _)
ClosingQuote(s, i) ==
  IF i > Len(s) THEN 0
  ELSE IF s[i] = "\"" THEN i
  ELSE ClosingQuote(s, i + 1)

ParseOk(v, next) == [ok |-> TRUE, value |-> v, next |-> next]
ParseFail(pos) == [ok |-> FALSE, pos |-> pos]

RECURSIVE ParseValueAt(_, _)
RECURSIVE ValueAt(_, _)
RECURSIVE ParseElements(_, _, _)
RECURSIVE ParseMembers(_, _, _)

\* the elements of an array after "[" or ",": value, then "," or "]"
ParseElements(s, i, acc) ==
  LET r == ParseValueAt(s, i) IN
  IF ~r.ok THEN r
  ELSE LET j == SkipWs(s, r.next) IN
       IF j > Len(s) THEN ParseFail(j)
       ELSE IF s[j] = "," THEN ParseElements(s, j + 1, Append(acc, r.value))
       ELSE IF s[j] = "]" THEN ParseOk(Arr(Append(acc, r.value)), j + 1)
       ELSE ParseFail(j)

\* the members of an object after "{" or ",": string, ":", value, then "," or "}"
ParseMembers(s, i, acc) ==
  LET k == SkipWs(s, i) IN
  IF k > Len(s) THEN ParseFail(k)
  ELSE IF s[k] # "\"" THEN ParseFail(k)
  ELSE LET q == ClosingQuote(s, k + 1) IN
       IF q = 0 THEN ParseFail(Len(s) + 1)
       ELSE LET c == SkipWs(s, q + 1) IN
            IF c > Len(s) THEN ParseFail(c)
            ELSE IF s[c] # ":" THEN ParseFail(c)
            ELSE LET r == ParseValueAt(s, c + 1) IN
                 IF ~r.ok THEN r
                 ELSE LET j == SkipWs(s, r.next)
                          key == SubSeq(s, k + 1, q - 1)
                      IN
                      IF j > Len(s) THEN ParseFail(j)
                      ELSE IF s[j] = "," THEN ParseMembers(s, j + 1, Put(acc, key, r.value))
                      ELSE IF s[j] = "}" THEN ParseOk(Obj(Put(acc, key, r.value)), j + 1)
                      ELSE ParseFail(j)

\* the value that starts at unit i, which is no blank
ValueAt(s, i) ==
  IF i > Len(s) THEN ParseFail(i)
  ELSE IF s[i] = "\"" THEN
         LET q == ClosingQuote(s, i + 1) IN
         IF q = 0 THEN ParseFail(Len(s) + 1)
         ELSE ParseOk(Str(SubSeq(s, i + 1, q - 1)), q + 1)
  ELSE IF s[i] = "[" THEN
         LET j == SkipWs(s, i + 1) IN
         IF j <= Len(s) /\ s[j] = "]" THEN ParseOk(Arr(<<>>), j + 1)
         ELSE ParseElements(s, i + 1, <<>>)
  ELSE IF s[i] = "{" THEN
         LET j == SkipWs(s, i + 1) IN
         IF j <= Len(s) /\ s[j] = "}" THEN ParseOk(Obj(<<>>), j + 1)
         ELSE ParseMembers(s, i + 1, <<>>)
  ELSE IF s[i] = "true" THEN ParseOk(Bool(TRUE), i + 1)
  ELSE IF s[i] = "false" THEN ParseOk(Bool(FALSE), i + 1)
  ELSE IF s[i] = "null" THEN ParseOk(Null, i + 1)
  ELSE IF IsNumeral(s[i]) THEN ParseOk(Num(NumeralValue(s[i])), i + 1)
  ELSE ParseFail(i)

ParseValueAt(s, i) == ValueAt(s, SkipWs(s, i))

\* the SyntaxError's message: end of input, or the unit that cannot stand there
SyntaxErrorMessage(s, pos) ==
  IF pos > Len(s) THEN <<"Unexpected end of JSON input">>
  ELSE <<"Unexpected token ", s[pos], " in JSON at position ", ToString(pos - 1)>>

\* after the value only blanks may follow; j is the first unit that is no blank
EndOfText(s, r, j) ==
  IF j <= Len(s) THEN [ok |-> FALSE, message |-> SyntaxErrorMessage(s, j)]
  ELSE [ok |-> TRUE, value |-> r.value]

JSONText(s, r) ==
  IF ~r.ok THEN [ok |-> FALSE, message |-> SyntaxErrorMessage(s, r.pos)]
  ELSE EndOfText(s, r, SkipWs(s, r.next))

\* JSON.parse(text): the value, or the SyntaxError thrown
JSONParse(s) == JSONText(s, ParseValueAt(s, 1))

(***************************************************************************)
(* Number(x), the coercion of z.coerce.number().  A number is kept exactly, *)
(* in hundredths: Num(n) when it is integral, Dec(h) otherwise, NaN for     *)
(* 'not a number'.  Texts here are sequences of signs, digit strings, '.',  *)
(* blanks and words; literals with an exponent, a radix prefix or Infinity  *)
(* are not among the inputs.                                                *)
(***************************************************************************)
NaN == [t |-> "number", nan |-> TRUE]

Dec(h) == [t |-> "number", hundredths |-> h]

IsNaN(v) == "nan" \in DOMAIN v

\* the value of a number, counted in hundredths
Hundredths(v) == IF "n" \in DOMAIN v THEN 100 * v.n ELSE v.hundredths

\* the number that is h hundredths
FromHundredths(h) == IF h % 100 = 0 THEN Num(h \div 100) ELSE Dec(h)

DigitStrings == (0..MaxDigits) \cup {10, 14, 42}

IsDigits(u) == \E n \in DigitStrings : ToString(n) = u

DigitsValue(u) == CHOOSE n \in DigitStrings : ToString(n) = u

\* the digits after the point, in hundredths: .5 is 50, .42 is 42
FractionValue(u) == IF DigitsValue(u) < 10 THEN 10 * DigitsValue(u) ELSE DigitsValue(u)

\* StrWhiteSpace is stripped from both ends
RECURSIVE StripEnd(_)
StripEnd(s) ==
  IF s # <<>> /\ s[Len(s)] = " " THEN StripEnd(SubSeq(s, 1, Len(s) - 1)) ELSE s

StripBlanks(s) == StripEnd(SubSeq(s, SkipWs(s, 1), Len(s)))

\* StrUnsignedDecimalLiteral: digits, digits '.', '.' digits, digits '.' digits;
\* its value in hundredths, -1 when the text is no such literal
UnsignedValue(r) ==
  CASE Len(r) = 1 /\ IsDigits(r[1]) -> 100 * DigitsValue(r[1])
    [] Len(r) = 2 /\ IsDigits(r[1]) /\ r[2] = "." -> 100 * DigitsValue(r[1])
    [] Len(r) = 2 /\ r[1] = "." /\ IsDigits(r[2]) -> FractionValue(r[2])
    [] Len(r) = 3 /\ IsDigits(r[1]) /\ r[2] = "." /\ IsDigits(r[3]) ->
         100 * DigitsValue(r[1]) + FractionValue(r[3])
    [] OTHER -> -1

\* Signed that drops the sign
SignedIgnored(negative, h) == IF h < 0 THEN NaN ELSE FromHundredths(h)

\* the sign applied to an unsigned value
Signed(negative, h) ==
  IF h < 0 THEN NaN ELSE FromHundredths(IF negative THEN 0 - h ELSE h)

\* StringToNumber of a text with its blanks stripped
TrimmedToNumber(r) ==
  IF r = <<>> THEN Num(0)
  ELSE IF Head(r) \in {"+", "-"} THEN Signed(Head(r) = "-", UnsignedValue(Tail(r)))
  ELSE Signed(FALSE, UnsignedValue(r))

StringToNumber(s) == TrimmedToNumber(StripBlanks(s))

\* Number(v)
RECURSIVE ToNumber(_)
ToNumber(v) ==
  CASE v.t = "number" -> v
    [] v.t = "string" -> StringToNumber(v.s)
    [] v.t = "boolean" -> IF v.b THEN Num(1) ELSE Num(0)
    [] v.t = "null" -> Num(0)
    [] v.t = "undefined" -> NaN
    [] v.t = "array" ->
         IF v.items = <<>> THEN Num(0)
         ELSE IF Len(v.items) > 1 THEN NaN
         ELSE IF v.items[1].t \in {"null", "undefined"} THEN Num(0)
         ELSE IF v.items[1].t \in {"string", "number", "array"} THEN ToNumber(v.items[1])
         ELSE NaN
    [] v.t = "object" -> NaN

(***************************************************************************)
(* zod: the schema constructors validation.ts uses and safeParse.  An      *)
(* issue is a path (property names and array indices) and a message; the   *)
(* messages are the library's.                                             *)
(***************************************************************************)
ZString == [kind |-> "string"]
ZNumber == [kind |-> "number"]
ZBoolean == [kind |-> "boolean"]
ZEnum(values) == [kind |-> "enum", values |-> values]
ZOptional(inner) == [kind |-> "optional", inner |-> inner]
ZArray(element) == [kind |-> "array", element |-> element]
ZObject(shape) == [kind |-> "object", shape |-> shape, passthrough |-> FALSE]
ZPassthrough(object) == [object EXCEPT !.passthrough = TRUE]
ZRecord(valueSchema) == [kind |-> "record", valueSchema |-> valueSchema]
ZUnion(options) == [kind |-> "union", options |-> options]
\* z.coerce.number().positive(), with .int() when int
ZCoercePositive(int) == [kind |-> "coerce.number", int |-> int]
Field(k, schema) == [k |-> k, schema |-> schema]

Issue(path, message) == [path |-> path, message |-> message]

InvalidType(expected, v, path) ==
  <<Issue(path, <<"Invalid input: expected ", expected, ", received ", v.t>>)>>

SafeOk(data) == [issues |-> <<>>, data |-> data]
SafeFail(issues) == [issues |-> issues, data |-> Undefined]

ShapeHasKey(shape, k) == \E i \in 1..Len(shape) : shape[i].k = k

RECURSIVE UnknownProps(_, _)

\* UnknownProps of a schema that strips: .passthrough() without effect
UnknownPropsStripped(shape, entries) == <<>>

\* the properties of the input the shape does not name, in input order
UnknownProps(shape, entries) ==
  IF entries = <<>> THEN <<>>
  ELSE (IF ShapeHasKey(shape, Head(entries).k) THEN <<>> ELSE <<Head(entries)>>)
       \o UnknownProps(shape, Tail(entries))

\* NumberChecks that lets zero pass: .nonnegative() for .positive()
NumberChecksNonnegative(schema, n, path) ==
  (IF schema.int /\ Hundredths(n) % 100 # 0
   THEN <<Issue(path, <<"Invalid input: expected ", "int", ", received ", "number">>)>>
   ELSE <<>>)
  \o (IF Hundredths(n) < 0
      THEN <<Issue(path, <<"Too small: expected ", "number", " to be ", ">=0">>)>>
      ELSE <<>>)

\* .int() and .positive(): each check that fails adds its issue
NumberChecks(schema, n, path) ==
  (IF schema.int /\ Hundredths(n) % 100 # 0
   THEN <<Issue(path, <<"Invalid input: expected ", "int", ", received ", "number">>)>>
   ELSE <<>>)
  \o (IF Hundredths(n) <= 0
      THEN <<Issue(path, <<"Too small: expected ", "number", " to be ", ">0">>)>>
      ELSE <<>>)

\* the outcome of the checks on the coerced number
Checked(n, issues) == IF issues = <<>> THEN SafeOk(n) ELSE SafeFail(issues)

\* z.coerce.number(): NaN is no number, any other number goes on to the checks
CoerceNumber(schema, n, path) ==
  IF IsNaN(n)
  THEN SafeFail(<<Issue(path, <<"Invalid input: expected ", "number", ", received ", "NaN">>)>>)
  ELSE Checked(n, NumberChecks(schema, n, path))

RECURSIVE SafeParseAt(_, _, _)
RECURSIVE ParseShape(_, _, _, _)
RECURSIVE ParseItems(_, _, _, _)
RECURSIVE ParseRecord(_, _, _, _)
RECURSIVE ParseUnion(_, _, _, _)

\* z.object: every field of the shape in shape order, all issues collected
ParseShape(shape, i, entries, path) ==
  IF i > Len(shape) THEN [issues |-> <<>>, props |-> <<>>]
  ELSE LET f == shape[i]
           r == SafeParseAt(f.schema, Get(entries, f.k), Append(path, Str(f.k)))
           rest == ParseShape(shape, i + 1, entries, path)
       IN [issues |-> r.issues \o rest.issues,
           props |-> (IF r.issues = <<>> /\ HasKey(entries, f.k)
                      THEN <<Prop(f.k, r.data)>> ELSE <<>>) \o rest.props]

\* ParseItems that stops at the first element with an issue
ParseItemsAbortEarly(element, items, i, path) ==
  IF i > Len(items) THEN [issues |-> <<>>, items |-> <<>>]
  ELSE IF SafeParseAt(element, items[i], Append(path, Num(i - 1))).issues # <<>>
       THEN [issues |-> SafeParseAt(element, items[i], Append(path, Num(i - 1))).issues,
             items |-> <<>>]
       ELSE ParseItems(element, items, i + 1, path)

\* z.array: every element in index order, all issues collected
ParseItems(element, items, i, path) ==
  IF i > Len(items) THEN [issues |-> <<>>, items |-> <<>>]
  ELSE LET r == SafeParseAt(element, items[i], Append(path, Num(i - 1)))
           rest == ParseItems(element, items, i + 1, path)
       IN [issues |-> r.issues \o rest.issues, items |-> <<r.data>> \o rest.items]

\* z.record(z.string(), valueSchema): every property in property order
ParseRecord(valueSchema, entries, i, path) ==
  IF i > Len(entries) THEN [issues |-> <<>>, props |-> <<>>]
  ELSE LET r == SafeParseAt(valueSchema, entries[i].v, Append(path, Str(entries[i].k)))
           rest == ParseRecord(valueSchema, entries, i + 1, path)
       IN [issues |-> r.issues \o rest.issues,
           props |-> <<Prop(entries[i].k, r.data)>> \o rest.props]

\* z.union: the first option that accepts, else one invalid_union issue
ParseUnion(options, i, v, path) ==
  IF i > Len(options) THEN SafeFail(<<Issue(path, <<"Invalid input">>)>>)
  ELSE LET r == SafeParseAt(options[i], v, path) IN
       IF r.issues = <<>> THEN r ELSE ParseUnion(options, i + 1, v, path)

SafeParseAt(schema, v, path) ==
  CASE schema.kind = "string" ->
         IF v.t = "string" THEN SafeOk(v) ELSE SafeFail(InvalidType("string", v, path))
    [] schema.kind = "number" ->
         IF v.t = "number" THEN SafeOk(v) ELSE SafeFail(InvalidType("number", v, path))
    [] schema.kind = "boolean" ->
         IF v.t = "boolean" THEN SafeOk(v) ELSE SafeFail(InvalidType("boolean", v, path))
    [] schema.kind = "enum" ->
         IF v.t = "string" /\ v.s \in schema.values THEN SafeOk(v)
         ELSE SafeFail(<<Issue(path, <<"Invalid option">>)>>)
    [] schema.kind = "optional" ->
         IF v.t = "undefined" THEN SafeOk(v) ELSE SafeParseAt(schema.inner, v, path)
    [] schema.kind = "array" ->
         IF v.t # "array" THEN SafeFail(InvalidType("array", v, path))
         ELSE LET r == ParseItems(schema.element, v.items, 1, path) IN
              IF r.issues = <<>> THEN SafeOk(Arr(r.items)) ELSE SafeFail(r.issues)
    [] schema.kind = "object" ->
         IF v.t # "object" THEN SafeFail(InvalidType("object", v, path))
         ELSE LET r == ParseShape(schema.shape, 1, v.entries, path) IN
              IF r.issues # <<>> THEN SafeFail(r.issues)
              ELSE SafeOk(Obj(r.props \o (IF schema.passthrough
                                          THEN UnknownProps(schema.shape, v.entries)
                                          ELSE <<>>)))
    [] schema.kind = "record" ->
         IF v.t # "object" THEN SafeFail(InvalidType("record", v, path))
         ELSE LET r == ParseRecord(schema.valueSchema, v.entries, 1, path) IN
              IF r.issues = <<>> THEN SafeOk(Obj(r.props)) ELSE SafeFail(r.issues)
    [] schema.kind = "union" -> ParseUnion(schema.options, 1, v, path)
    [] schema.kind = "coerce.number" -> CoerceNumber(schema, ToNumber(v), path)

\* schema.safeParse(data)
SafeParseResult(r) ==
  IF r.issues = <<>> THEN [success |-> TRUE, data |-> r.data]
  ELSE [success |-> FALSE, issues |-> r.issues]

SafeParse(schema, v) == SafeParseResult(SafeParseAt(schema, v, <<>>))

(***************************************************************************)
(* The schemas of validation.ts.                                           *)
(***************************************************************************)
CookieSchema ==
  ZPassthrough(ZObject(<<
    Field(<<"name">>, ZString),
    Field(<<"value">>, ZString),
    Field(<<"domain">>, ZString),
    Field(<<"path">>, ZString),
    Field(<<"expires">>, ZOptional(ZNumber)),
    Field(<<"httpOnly">>, ZOptional(ZBoolean)),
    Field(<<"secure">>, ZOptional(ZBoolean)),
    Field(<<"sameSite">>, ZOptional(ZEnum({<<"Strict">>, <<"Lax">>, <<"None">>}))),
    Field(<<"url">>, ZOptional(ZString))>>))

CookiesSchema == ZUnion(<<ZArray(CookieSchema), CookieSchema>>)

HeadersSchema == ZRecord(ZString)

AuthSchema ==
  ZObject(<<
    Field(<<"username">>, ZString),
    Field(<<"password">>, ZString),
    Field(<<"origin">>, ZOptional(ZString)),
    Field(<<"send">>, ZOptional(ZEnum({<<"unauthorized">>, <<"always">>})))>>)

FirefoxPrefsSchema == ZRecord(ZUnion(<<ZString, ZNumber, ZBoolean>>))

OverrideHostSchema == ZRecord(ZString)

StringArraySchema == ZArray(ZString)

PositiveIntSchema == ZCoercePositive(TRUE)

PositiveFloatSchema == ZCoercePositive(FALSE)

\* schemas.js exports DelaySchema (the tests import it); it is not in validation.ts
DelaySchema == ZRecord(ZNumber)

(***************************************************************************)
(* validation.ts: formatZodError, parseCLIOption, parseUnknown.            *)
(***************************************************************************)
\* String(x) of a path segment: a property name as it is, an index in decimal
SegmentText(seg) == IF seg.t = "number" THEN <<ToString(seg.n)>> ELSE seg.s

\* Array.prototype.join over texts
RECURSIVE Join(_, _)
Join(texts, sep) ==
  IF texts = <<>> THEN <<>>
  ELSE IF Len(texts) = 1 THEN texts[1]
  ELSE texts[1] \o <<sep>> \o Join(Tail(texts), sep)

\* IssueLine without the marker for an empty path
IssueLineNoRoot(issue) ==
  <<"  - ">> \o Join([i \in 1..Len(issue.path) |-> SegmentText(issue.path[i])], ".")
    \o <<": ">> \o issue.message

IssueLine(issue) ==
  LET path == IF Len(issue.path) > 0
              THEN Join([i \in 1..Len(issue.path) |-> SegmentText(issue.path[i])], ".")
              ELSE <<"(root)">>
  IN <<"  - ">> \o path \o <<": ">> \o issue.message

formatZodError(issues) == Join([i \in 1..Len(issues) |-> IssueLine(issues[i])], "\n")

Returned(v) == [ok |-> TRUE, value |-> v]
Thrown(message) == [ok |-> FALSE, message |-> message]

InvalidDataError(flagName, issues) ==
  Thrown(<<"Invalid data for \"">> \o flagName \o <<"\":\n">> \o formatZodError(issues))

\* if (!result.success) throw ...; return result.data
Validated(flagName, r) ==
  IF ~r.success THEN InvalidDataError(flagName, r.issues)
  ELSE Returned(r.data)

parseUnknown(flagName, data, schema) == Validated(flagName, SafeParse(schema, data))

\* Parsed with a catch block that does not throw: parsed stays undefined
ParsedCatchSwallows(flagName, parsed, schema) ==
  Validated(flagName, SafeParse(schema, IF parsed.ok THEN parsed.value ELSE Undefined))

\* try { parsed = JSON.parse(jsonString) } catch (err) { throw ... }, then the schema
Parsed(flagName, parsed, schema) ==
  IF ~parsed.ok
  THEN Thrown(<<"Invalid JSON for \"">> \o flagName \o <<"\": ">> \o parsed.message)
  ELSE Validated(flagName, SafeParse(schema, parsed.value))

parseCLIOption(flagName, jsonString, schema) ==
  Parsed(flagName, JSONParse(jsonString), schema)

(***************************************************************************)
(* config.ts.  DEFAULT_OPTIONS is imported from defaultOptions.js.         *)
(***************************************************************************)
DEFAULT_OPTIONS ==
  [browser |-> Str(<<"chrome">>), width |-> Num(1366), height |-> Num(768),
   frameRate |-> Num(1), timeout |-> Num(30000),
   blockDomains |-> Arr(<<>>), block |-> Arr(<<>>),
   disableJS |-> Bool(FALSE), debug |-> Bool(FALSE), html |-> Bool(FALSE),
   openHtml |-> Bool(FALSE), list |-> Bool(FALSE), connectionType |-> Bool(FALSE),
   auth |-> Bool(FALSE), zip |-> Bool(FALSE), dry |-> Bool(FALSE),
   delayUsing |-> Str(<<"continue">>)]

\* the properties of CLIOptions; an absent property reads as Undefined
OptionNames ==
  {"url", "browser", "width", "height", "frameRate", "timeout", "blockDomains",
   "block", "disableJS", "debug", "html", "openHtml", "list", "connectionType",
   "auth", "zip", "dry", "delayUsing", "cookies", "headers", "delay",
   "firefoxPrefs", "overrideHost", "flags", "cpuThrottle", "uploadUrl"}

\* the properties of LaunchOptions; a property never assigned is Undefined
ConfigNames ==
  {"url", "browser", "width", "height", "frameRate", "timeout", "blockDomains",
   "block", "disableJS", "debug", "html", "openHtml", "list", "connectionType",
   "auth", "zip", "dry", "delayUsing", "cookies", "headers", "delay",
   "firefoxPrefs", "overrideHost", "args", "cpuThrottle", "uploadUrl"}

\* the two digits after the point, without a trailing zero
FractionText(c) ==
  IF c % 10 = 0 THEN ToString(c \div 10)
  ELSE IF c < 10 THEN "0" \o ToString(c)
  ELSE ToString(c)

\* Number::toString of a number that is not integral, h hundredths of size a
DecText(h, a) ==
  (IF h < 0 THEN <<"-">> ELSE <<>>) \o <<ToString(a \div 100), ".", FractionText(a % 100)>>

\* Number::toString
NumberText(v) ==
  IF IsNaN(v) THEN <<"NaN">>
  ELSE IF "n" \in DOMAIN v THEN <<ToString(v.n)>>
  ELSE DecText(v.hundredths, IF v.hundredths < 0 THEN 0 - v.hundredths ELSE v.hundredths)

\* String(x), the coercion JSON.parse applies to an argument that is no string
RECURSIVE ToStringJS(_)
ToStringJS(v) ==
  CASE v.t = "string" -> v.s
    [] v.t = "number" -> NumberText(v)
    [] v.t = "boolean" -> IF v.b THEN <<"true">> ELSE <<"false">>
    [] v.t = "null" -> <<"null">>
    [] v.t = "undefined" -> <<"undefined">>
    [] v.t = "array" ->
         Join([i \in 1..Len(v.items) |->
                 IF v.items[i].t \in {"null", "undefined"} THEN <<>>
                 ELSE ToStringJS(v.items[i])], ",")
    [] v.t = "object" -> <<"[", "object", " ", "Object", "]">>

\* opt_group.includes('[')
Includes(s, u) == \E i \in 1..Len(s) : s[i] = u

\* opt_group.split(/,/): the pieces between the commas, empty pieces included
RECURSIVE SplitFrom(_, _, _, _)
SplitFrom(s, sep, i, piece) ==
  IF i > Len(s) THEN <<piece>>
  ELSE IF s[i] = sep THEN <<piece>> \o SplitFrom(s, sep, i + 1, <<>>)
  ELSE SplitFrom(s, sep, i + 1, Append(piece, s[i]))

Split(s, sep) == SplitFrom(s, sep, 1, <<>>)

RECURSIVE PushNonEmpty(_, _)

\* PushNonEmpty that skips a piece the list already holds
PushNonEmptyDeduplicated(chosen, pieces) ==
  IF pieces = <<>> THEN chosen
  ELSE PushNonEmpty(IF Head(pieces) # <<>>
                         /\ \A i \in 1..Len(chosen) : chosen[i] # Str(Head(pieces))
                    THEN Append(chosen, Str(Head(pieces)))
                    ELSE chosen,
                    Tail(pieces))

\* the inner forEach: push every piece that is not empty
PushNonEmpty(chosen, pieces) ==
  IF pieces = <<>> THEN chosen
  ELSE PushNonEmpty(IF Head(pieces) # <<>> THEN Append(chosen, Str(Head(pieces)))
                    ELSE chosen,
                    Tail(pieces))

RECURSIVE ForEachChoice(_, _, _, _)

\* chosen.push(...validated), then the next entry
PushValidated(flagName, choices, i, chosen, r) ==
  IF ~r.ok THEN r
  ELSE ForEachChoice(flagName, choices, i + 1, chosen \o r.value.items)

\* const parsed = JSON.parse(opt_group), which may throw, then parseUnknown
PushParsed(flagName, choices, i, chosen, parsed) ==
  IF ~parsed.ok THEN Thrown(parsed.message)
  ELSE PushValidated(flagName, choices, i, chosen,
                     parseUnknown(flagName, parsed.value, StringArraySchema))

\* choices.forEach(...) from entry i on, with the list chosen so far
ForEachChoice(flagName, choices, i, chosen) ==
  IF i > Len(choices) THEN Returned(Arr(chosen))
  ELSE IF Includes(choices[i].s, "[")
       THEN PushParsed(flagName, choices, i, chosen, JSONParse(choices[i].s))
       ELSE ForEachChoice(flagName, choices, i + 1,
                          PushNonEmpty(chosen, Split(choices[i].s, ",")))

parseJSONArrayOrCommaSeparatedStrings(flagName, choices) ==
  ForEachChoice(flagName, choices.items, 1, <<>>)

\* new URL(text) succeeds: an absolute URL, scheme ":" rest
ValidURL(s) ==
  /\ Len(s) >= 3
  /\ s[2] = ":"
  /\ s[1] \notin {"[", "]", "{", "}", ",", ":", "\"", "'", " "}
  /\ ~IsNumeral(s[1])

\* the object literal normalizeCLIConfig starts from (both definitions)
InitialConfig(options) ==
  [f \in ConfigNames |->
     CASE f = "url" -> options.url
       [] f \in {"width", "height", "frameRate", "timeout"} ->
            Coalesce(options[f], DEFAULT_OPTIONS[f])
       [] f \in {"browser", "blockDomains", "block", "disableJS", "debug", "html",
                 "openHtml", "list", "connectionType", "zip", "dry"} ->
            OrElse(options[f], DEFAULT_OPTIONS[f])
       [] f \in {"auth", "delayUsing"} -> DEFAULT_OPTIONS[f]
       [] OTHER -> Undefined]

\* the function while it runs: the config built so far, the properties it has
\* assigned after the literal, and the error once one is thrown
Running(config) == [threw |-> FALSE, config |-> config, assigned |-> <<>>]

\* if (present) config[field] = outcome, where computing outcome may throw
Assign(st, present, field, outcome) ==
  IF st.threw \/ ~present THEN st
  ELSE IF outcome.ok
       THEN [st EXCEPT !.config[field] = outcome.value, !.assigned = Append(@, field)]
       ELSE [threw |-> TRUE, message |-> outcome.message, assigned |-> st.assigned]

\* Rethrow that names --block whichever flag failed
RethrowAsBlock(flagName, outcome) ==
  IF outcome.ok THEN outcome
  ELSE Thrown(<<"Problem parsing \"", "--block", "\" options - ">> \o outcome.message)

\* try { ... } catch (err) { throw new Error(`Problem parsing "<flag>" options - ...`) }
Rethrow(flagName, outcome) ==
  IF outcome.ok THEN outcome
  ELSE Thrown(<<"Problem parsing \"">> \o flagName \o <<"\" options - ">> \o outcome.message)

\* the if statements of normalizeCLIConfig in program order, by the property of
\* options each one tests
Steps ==
  <<"cookies", "headers", "auth", "delay", "delayUsing", "firefoxPrefs",
    "overrideHost", "flags", "cpuThrottle", "block", "blockDomains", "uploadUrl">>

StructuredNames == {"cookies", "headers", "auth", "delay", "firefoxPrefs", "overrideHost"}

\* the property of config a step assigns
Target(step) == IF step = "flags" THEN "args" ELSE step

FlagOf(step) == <<"--" \o step>>

FieldSchema(step) ==
  CASE step = "cookies" -> CookiesSchema
    [] step = "headers" -> HeadersSchema
    [] step = "auth" -> AuthSchema
    [] step = "firefoxPrefs" -> FirefoxPrefsSchema
    [] step = "overrideHost" -> OverrideHostSchema

\* config.delay = JSON.parse(options.delay)
ParseDelay(parsed) == IF parsed.ok THEN Returned(parsed.value) ELSE Thrown(parsed.message)

\* the steps both definitions share: flags, cpuThrottle, block, blockDomains, uploadUrl
CommonOutcome(options, step) ==
  CASE step \in {"flags", "cpuThrottle"} -> Returned(options[step])
    [] step \in {"block", "blockDomains"} ->
         Rethrow(FlagOf(step),
                 parseJSONArrayOrCommaSeparatedStrings(FlagOf(step), options[step]))
    [] step = "uploadUrl" ->
         IF ValidURL(ToStringJS(options.uploadUrl)) THEN Returned(options.uploadUrl)
         ELSE Thrown(<<"--uploadUrl must be a valid URL">>)

\* Present that tests for undefined where the code tests for truthiness
PresentIfDefined(options, step) ==
  IF step = "delayUsing"
  THEN options.delayUsing = Str(<<"fulfill">>) \/ options.delayUsing = Str(<<"continue">>)
  ELSE options[step] # Undefined

\* the definition at config.ts:21: whether a step's condition holds
Present(options, step) ==
  IF step = "delayUsing"
  THEN Truthy(options.delayUsing)
         /\ (options.delayUsing = Str(<<"fulfill">>)
               \/ options.delayUsing = Str(<<"continue">>))
  ELSE Truthy(options[step])

\* the definition at config.ts:21: what a step assigns, or the error it throws
Outcome(options, step) ==
  CASE step \in {"cookies", "headers", "auth", "firefoxPrefs", "overrideHost"} ->
         parseCLIOption(FlagOf(step), ToStringJS(options[step]), FieldSchema(step))
    [] step = "delay" -> ParseDelay(JSONParse(ToStringJS(options.delay)))
    [] step = "delayUsing" -> Returned(options.delayUsing)
    [] OTHER -> CommonOutcome(options, step)

\* the definition at config.ts:167: whether a step's condition holds
Present2(options, step) == Truthy(options[step])

\* the definition at config.ts:167: what a step assigns, or the error it throws
Outcome2(options, step) ==
  IF step \in StructuredNames \cup {"delayUsing"} THEN Returned(options[step])
  ELSE CommonOutcome(options, step)

\* the steps from the i-th on, in the definition def (1: line 21, 2: line 167)
RECURSIVE RunSteps(_, _, _, _)
RunSteps(def, options, i, st) ==
  IF i > Len(Steps) THEN st
  ELSE RunSteps(def, options, i + 1,
                IF def = 1
                THEN Assign(st, Present(options, Steps[i]), Target(Steps[i]),
                            Outcome(options, Steps[i]))
                ELSE Assign(st, Present2(options, Steps[i]), Target(Steps[i]),
                            Outcome2(options, Steps[i])))

\* return config, unless an error was thrown
Finish(st) ==
  IF st.threw THEN [ok |-> FALSE, message |-> st.message, assigned |-> st.assigned]
  ELSE [ok |-> TRUE, value |-> st.config, assigned |-> st.assigned]

\* normalizeCLIConfig, the definition at config.ts:21
normalizeCLIConfig(options) ==
  Finish(RunSteps(1, options, 1, Running(InitialConfig(options))))

\* normalizeCLIConfig, the definition at config.ts:167
normalizeCLIConfig2(options) ==
  Finish(RunSteps(2, options, 1, Running(InitialConfig(options))))

\* schema.parse(input): the data, or a ZodError that carries the issues
ParseOutcome(r) == IF r.success THEN Returned(r.data) ELSE [ok |-> FALSE, issues |-> r.issues]

SchemaParse(schema, input) == ParseOutcome(SafeParse(schema, input))

\* parseWithSchema is exported by validation.js (the tests import it) and is not in
\* validation.ts: the parsed value, or an error that gives the value and then the flag
WithSchema(value, flagName, r) ==
  IF r.success THEN Returned(r.data)
  ELSE Thrown(<<"Invalid value \"">> \o ToStringJS(value) \o <<"\" for ">> \o flagName)

parseWithSchema(schema, value, flagName) == WithSchema(value, flagName, SafeParse(schema, value))

(***************************************************************************)
(* Inputs: the texts and values of the test suite, every short text over   *)
(* FuzzUnits, and option records with up to two properties supplied.       *)
(***************************************************************************)
Q == "\""

\* "w" as JSON text
JText(w) == <<Q, w, Q>>

\* "k":v as JSON text
Member(k, v) == JText(k) \o <<":">> \o v

\* {m1,m2,...} as JSON text
ObjectText(members) == <<"{">> \o Join(members, ",") \o <<"}">>

\* [e1,e2,...] as JSON text
ArrayText(elements) == <<"[">> \o Join(elements, ",") \o <<"]">>

NameA == Member("name", JText("a"))
ValueB == Member("value", JText("b"))
DomainD == Member("domain", JText("d"))
PathP == Member("path", JText("/"))
UrlU == Member("url", JText("u"))

CookieFull == ObjectText(<<NameA, ValueB, DomainD, PathP>>)
CookieNameValue == ObjectText(<<NameA, ValueB>>)
CookieNoDomain == ObjectText(<<NameA, ValueB, PathP>>)
CookieNoPath == ObjectText(<<NameA, ValueB, DomainD>>)
CookieUrl == ObjectText(<<NameA, ValueB, UrlU>>)
CookieExtra == ObjectText(<<NameA, ValueB, DomainD, PathP, Member("extra", JText("field"))>>)
CookieUnordered == ObjectText(<<PathP, Member("extra", <<"1">>), ValueB, DomainD, NameA>>)
CookieNoName == ObjectText(<<ValueB, DomainD, PathP>>)
CookieNoValue == ObjectText(<<NameA, DomainD, PathP>>)
CookieEmpty == ObjectText(<<>>)
CookieBadSameSite ==
  ObjectText(<<NameA, ValueB, DomainD, PathP, Member("sameSite", JText("invalid"))>>)
CookieLax ==
  ObjectText(<<NameA, ValueB, DomainD, PathP, Member("sameSite", JText("Lax")),
               Member("httpOnly", <<"true">>), Member("expires", <<"3">>)>>)

CookieTexts ==
  {CookieFull, CookieNameValue, CookieNoDomain, CookieNoPath, CookieUrl, CookieExtra,
   CookieUnordered, CookieNoName, CookieNoValue, CookieEmpty, CookieBadSameSite,
   CookieLax, ArrayText(<<CookieFull, CookieFull>>), ArrayText(<<CookieFull>>),
   ArrayText(<<CookieNameValue>>), ArrayText(<<CookieFull, CookieNoName>>)}

UserU == Member("username", JText("u"))
PassP == Member("password", JText("p"))

AuthTexts ==
  {ObjectText(<<UserU, PassP>>),
   ObjectText(<<PassP, UserU>>),
   ObjectText(<<UserU, PassP, Member("origin", JText("o"))>>),
   ObjectText(<<UserU, PassP, Member("send", JText("always"))>>),
   ObjectText(<<UserU, PassP, Member("send", JText("unauthorized"))>>),
   ObjectText(<<UserU, PassP, Member("send", JText("never"))>>),
   ObjectText(<<UserU, PassP, Member("extra", <<"1">>)>>),
   ObjectText(<<PassP>>),
   ObjectText(<<UserU>>),
   ObjectText(<<Member("username", <<"1">>), Member("send", JText("never"))>>)}

MapTexts ==
  {ObjectText(<<Member("Accept", JText("text")), Member("X", JText("value"))>>),
   ObjectText(<<Member("Accept", <<"1">>)>>),
   ObjectText(<<Member("a", <<"1">>), Member("b", <<"2">>)>>),
   ObjectText(<<Member("a", <<"1">>), Member("b", <<"null">>), Member("c", <<"[", "]">>)>>),
   ObjectText(<<Member("pref", JText("value")), Member("n", <<"2">>), Member("b", <<"true">>)>>),
   ObjectText(<<Member("pref", <<"null">>)>>),
   ObjectText(<<Member("pref", ObjectText(<<Member("nested", <<"true">>)>>))>>),
   ObjectText(<<Member("pref", <<"[", "1", ",", "2", "]">>)>>),
   ObjectText(<<Member(".css$", <<"2">>), Member(".js$", <<"3">>)>>),
   ObjectText(<<Member(".css$", JText("slow"))>>)}

ListTexts ==
  {ArrayText(<<JText("a"), JText("b"), JText("c")>>),
   ArrayText(<<JText("b"), JText("a"), JText("b")>>),
   ArrayText(<<JText("a"), <<"1">>, JText("b"), <<"null">>>>),
   <<"[", "1", ",", " ", "2", ",", " ", "3", "]">>,
   JText("string"),
   <<Q, "just", " ", "a", " ", "string", Q>>}

\* the malformed texts of the "JSON syntax errors" tests and of the block test
MalformedTexts ==
  {<<>>,
   <<"{", "'", "a", "'", ":", " ", "1", "}">>,
   <<"{", Q, "a", Q, ":", " ", "1", ",", "}">>,
   <<"{", "a", ":", " ", "1", "}">>,
   <<"[", " ", "'", "one", "'", ",", " ", "'", "two", "'", " ", "]">>,
   <<"[", Q, "a", Q, ",", "]">>,
   <<"{", Q, "a", Q, ":", Q, "b", "}">>}

FuzzUnits == {"[", "]", "{", "}", ",", ":", Q, "'", " ", "a", "1", "null"}

FuzzTexts == UNION {[1..n -> FuzzUnits] : n \in 0..MaxFuzzLen}

Texts == CookieTexts \cup AuthTexts \cup MapTexts \cup ListTexts \cup MalformedTexts \cup FuzzTexts

\* already-structured values: what the valid texts denote
\* the value a parse result denotes, if any
Denoted(parsed) == IF parsed.ok THEN {parsed.value} ELSE {}

Values == UNION {Denoted(JSONParse(s)) : s \in Texts}

SchemaNames == {"Cookies", "Headers", "Auth", "FirefoxPrefs", "OverrideHost", "StringArray"}

NumericSchemaNames == {"PositiveInt", "PositiveFloat"}

SchemaOf(name) ==
  CASE name = "PositiveInt" -> PositiveIntSchema
    [] name = "PositiveFloat" -> PositiveFloatSchema
    [] name = "Cookies" -> CookiesSchema
    [] name = "Headers" -> HeadersSchema
    [] name = "Auth" -> AuthSchema
    [] name = "FirefoxPrefs" -> FirefoxPrefsSchema
    [] name = "OverrideHost" -> OverrideHostSchema
    [] name = "StringArray" -> StringArraySchema

FlagNames == {<<"--test">>, <<"--cookies">>, <<"--block">>}

\* the texts supplied for a structured property; each is supplied as raw text
\* (the CLI) and, when it is JSON, as the value it denotes (a programmatic caller)
StructuredTexts(f) ==
  CASE f = "cookies" ->
         {<<>>, CookieFull, CookieNameValue, CookieNoName, ArrayText(<<CookieFull>>),
          <<"{", "a", ":", " ", "1", "}">>, <<"[", "1", ",", "2", "]">>, <<"[", "]">>}
    [] f = "headers" ->
         {<<>>, ObjectText(<<Member("Accept", JText("text"))>>),
          ObjectText(<<Member("Accept", <<"1">>)>>)}
    [] f = "auth" -> {<<>>, ObjectText(<<UserU, PassP>>), ObjectText(<<UserU>>)}
    [] f = "delay" ->
         {<<>>, ObjectText(<<Member(".css$", <<"2">>)>>),
          ObjectText(<<Member(".css$", JText("slow"))>>), JText("slow"), <<"2">>,
          <<"{", ".css$", ":", "2", "}">>}
    [] f = "firefoxPrefs" ->
         {<<>>, ObjectText(<<Member("pref", <<"true">>)>>),
          ObjectText(<<Member("pref", <<"null">>)>>)}
    [] f = "overrideHost" ->
         {<<>>, ObjectText(<<Member("old", JText("new"))>>),
          ObjectText(<<Member("old", <<"1">>)>>)}

\* a text as raw text, and as the value it denotes when it denotes one
AsSupplied(s, parsed) == {Str(s)} \cup Denoted(parsed)

Supplied(f, v) == [f |-> f, v |-> v]

\* one supplied property of CLIOptions
Choices ==
  {Supplied(c[1], c[2]) :
     c \in UNION {{f} \X UNION {AsSupplied(s, JSONParse(s)) : s \in StructuredTexts(f)} :
                    f \in StructuredNames}}
  \cup {Supplied("delayUsing", Str(s)) :
     s \in {<<>>, <<"fulfill">>, <<"continue">>, <<"slow">>, <<"Fulfill">>}}
  \cup {Supplied(f, Num(n)) :
     f \in {"width", "height", "frameRate", "timeout", "cpuThrottle"}, n \in {0, 1920}}
  \cup {Supplied("flags", v) : v \in {Arr(<<>>), Arr(<<Str(<<"--disable-gpu">>)>>)}}
  \cup {Supplied(f, Arr(v)) :
     f \in {"block", "blockDomains"},
     v \in {<<>>,
            <<Str(<<"b", ",", "a", ",", ",", "b">>)>>,
            <<Str(<<",">>), Str(<<>>), Str(<<"a", " ", "b">>)>>,
            <<Str(<<"c">>), Str(ArrayText(<<JText("b"), <<Q, "a", ",", "c", Q>>, JText("b")>>)),
              Str(<<"a", ",", "c">>)>>,
            <<Str(<<"[", "]">>), Str(<<"x">>)>>,
            <<Str(<<"a">>),
              Str(<<"[", " ", "'", "one", "'", ",", " ", "'", "two", "'", " ", "]">>)>>,
            <<Str(<<"a", "[", "b">>)>>,
            <<Str(<<"a">>), Str(<<"[", "1", ",", Q, "b", Q, ",", "2", "]">>)>>,
            <<Str(<<"{", Q, "[", Q, ":", "1", "}">>)>>}}
  \cup {Supplied("uploadUrl", Str(s)) :
     s \in {<<>>, <<"https", ":", "//example.com/upload">>, <<"not a url">>}}
  \cup {Supplied("browser", Str(<<"firefox">>)), Supplied("debug", Bool(TRUE))}

BaseOptions ==
  [f \in OptionNames |->
     IF f = "url" THEN Str(<<"https", ":", "//example.com">>) ELSE Undefined]

Supply(options, c) == [options EXCEPT ![c.f] = c.v]

\* {url} with up to two further properties supplied
OptionRecords == {Supply(Supply(BaseOptions, c[1]), c[2]) : c \in Choices \X Choices}

SamplePaths ==
  {<<>>, <<Str(<<"name">>)>>, <<Num(0)>>, <<Num(1), Str(<<"name">>)>>,
   <<Str(<<"a">>), Str(<<"b">>), Num(2)>>}

SampleMessages ==
  {<<"Invalid input">>, <<"Invalid input: expected ", "string", ", received ", "number">>}

SampleIssues == {Issue(path, m) : path \in SamplePaths, m \in SampleMessages}

IssueLists == UNION {[1..n -> SampleIssues] : n \in 0..MaxIssues}

\* the numeric texts of the PositiveIntSchema, PositiveFloatSchema and
\* parseWithSchema tests
NumberTestTexts ==
  {<<"42">>, <<"0">>, <<"-", "5">>, <<"3", ".", "5">>, <<"abc">>, <<>>, <<"4", ".", "5">>,
   <<"2">>, <<"-", "1", ".", "5">>, <<"fast">>, <<"eight">>, <<" ", "10", " ">>,
   <<"0", ".", "42">>, <<"-", "0">>, <<"+", "5">>, <<"+", "4", ".", "5">>, <<"+", "-", "5">>,
   <<"42", ".">>, <<".", "42">>}

NumberUnits == {"-", ".", " ", "0", "5", "abc"}

NumberTexts == NumberTestTexts \cup UNION {[1..n -> NumberUnits] : n \in 0..MaxNumberLen}

\* what is handed to a numeric schema: texts, numbers, and values of other types
NumericInputs ==
  {Str(s) : s \in NumberTexts}
  \cup {Num(10), Num(0), Num(1), Num(0 - 5), Dec(314), Dec(350), Dec(0 - 150), NaN}
  \cup {Bool(TRUE), Bool(FALSE), Null, Undefined, Arr(<<>>), Arr(<<Num(5)>>),
        Arr(<<Str(<<"4", ".", "5">>)>>), Arr(<<Num(1), Num(2)>>), Obj(<<>>)}

NumericFlagNames == {<<"--width">>, <<"--cpuThrottle">>}

Calls ==
  {[op |-> "parseCLIOption", flagName |-> f, jsonString |-> s, schema |-> n] :
     f \in FlagNames, s \in Texts, n \in SchemaNames}
  \cup {[op |-> "parseUnknown", flagName |-> f, data |-> v, schema |-> n] :
     f \in FlagNames, v \in Values, n \in SchemaNames}
  \cup {[op |-> "formatZodError", issues |-> l] : l \in IssueLists}
  \cup {[op |-> "parse", schema |-> n, input |-> v] :
     n \in NumericSchemaNames, v \in NumericInputs}
  \cup {[op |-> "parseWithSchema", schema |-> n, value |-> v, flagName |-> f] :
     n \in NumericSchemaNames, v \in NumericInputs, f \in NumericFlagNames}
  \cup {[op |-> o, options |-> r] :
     o \in {"normalizeCLIConfig", "normalizeCLIConfig2"}, r \in OptionRecords}

(***************************************************************************)
(* Arrays and objects are references.  A cell of the heap holds an array   *)
(* or an object; a property that holds one holds the cell's address.       *)
(***************************************************************************)
Ref(a) == [t |-> "ref", a |-> a]

\* what a property holds: the cell's content for a reference, else the value
Deref(h, v) == IF v.t = "ref" THEN h[v.a] ELSE v

\* a new array or object goes to a new cell; any other value is held directly
Store(h, v) ==
  IF v.t \in {"array", "object"} THEN [heap |-> Append(h, v), v |-> Ref(Len(h) + 1)]
  ELSE [heap |-> h, v |-> v]

\* the module-level DEFAULT_OPTIONS: its two lists are cells 1 and 2
InitialHeap == <<DEFAULT_OPTIONS.block, DEFAULT_OPTIONS.blockDomains>>

DefaultsOnHeap == [block |-> Ref(1), blockDomains |-> Ref(2)]

\* the properties of a record that can hold a list or a map
MutableNames == {"block", "blockDomains", "args", "cookies"}

\* the option records a programmatic caller builds
NothingGiven == [flags |-> Undefined, block |-> Undefined, cookies |-> Undefined]

HeapInputs ==
  {NothingGiven,
   [NothingGiven EXCEPT !.flags = Arr(<<Str(<<"--disable-gpu">>)>>)],
   [NothingGiven EXCEPT !.block = Arr(<<Str(<<"a", ",", "b">>)>>)],
   [NothingGiven EXCEPT !.flags = Arr(<<>>), !.block = Arr(<<Str(<<"[", "]">>)>>)]}
  \cup {[NothingGiven EXCEPT !.cookies = v] : v \in AsSupplied(CookieFull, JSONParse(CookieFull))}

\* the caller's record with its arrays and objects in new cells
AllocInput(h, in) ==
  LET f == Store(h, in.flags)
      b == Store(f.heap, in.block)
      c == Store(b.heap, in.cookies)
  IN [heap |-> c.heap, rec |-> [flags |-> f.v, block |-> b.v, cookies |-> c.v]]

\* the options as normalizeCLIConfig reads them
OptionsOf(in) ==
  [BaseOptions EXCEPT !.flags = in.flags, !.block = in.block, !.cookies = in.cookies]

\* whether a step assigned its property
Assigned(r, field) == \E k \in 1..Len(r.assigned) : r.assigned[k] = field

\* the returned config, property by property, as the code builds it: block is the
\* new list of parseJSONArrayOrCommaSeparatedStrings when options.block is given
\* and DEFAULT_OPTIONS.block itself otherwise; blockDomains likewise; args is
\* options.flags itself; cookies is the new value parseCLIOption returns in the
\* definition at line 21 and options.cookies itself in the definition at line 167
BuildConfig(def, h, rec, r) ==
  LET b == IF Assigned(r, "block") THEN Store(h, r.value.block)
           ELSE [heap |-> h, v |-> DefaultsOnHeap.block]
      c == IF Assigned(r, "cookies")
           THEN (IF def = 1 THEN Store(b.heap, r.value.cookies)
                 ELSE [heap |-> b.heap, v |-> rec.cookies])
           ELSE [heap |-> b.heap, v |-> Undefined]
  IN [heap |-> c.heap,
      rec |-> [block |-> b.v,
               blockDomains |-> DefaultsOnHeap.blockDomains,
               args |-> IF Assigned(r, "args") THEN rec.flags ELSE Undefined,
               cookies |-> c.v]]

\* a record with the content of its cells
Deep(h, rec) == [f \in DOMAIN rec |-> Deref(h, rec[f])]

\* a record as it is kept: its properties, and its content when it was last
\* written by its owner
Kept(h, rec) == [rec |-> rec, was |-> Deep(h, rec)]

\* the call returned: the heap and the returned records after it
AfterCall(def, a, r) ==
  IF r.ok
  THEN LET c == BuildConfig(def, a.heap, a.rec, r)
       IN /\ heap' = c.heap
          /\ returned' = Append(returned, Kept(c.heap, c.rec))
  ELSE /\ heap' = a.heap
       /\ UNCHANGED returned

\* list.push('x'), map.x = 'x'
Mutated(v) ==
  IF v.t = "array" THEN Arr(Append(v.items, Str(<<"x">>)))
  ELSE Obj(Put(v.entries, <<"x">>, Str(<<"x">>)))

(***************************************************************************)
(* The state machine: one operation is called and runs to its end.         *)
(***************************************************************************)
Init ==
  /\ call \in Calls
  /\ pc = "called"
  /\ result = Returned(Undefined)
  /\ heap = InitialHeap
  /\ given = <<>>
  /\ returned = <<>>
  /\ mutations = 0

ParseCLIOptionCall ==
  /\ pc = "called"
  /\ call.op = "parseCLIOption"
  /\ result' = parseCLIOption(call.flagName, call.jsonString, SchemaOf(call.schema))
  /\ pc' = "done"
  /\ UNCHANGED <<call, hvars>>

ParseUnknownCall ==
  /\ pc = "called"
  /\ call.op = "parseUnknown"
  /\ result' = parseUnknown(call.flagName, call.data, SchemaOf(call.schema))
  /\ pc' = "done"
  /\ UNCHANGED <<call, hvars>>

FormatZodErrorCall ==
  /\ pc = "called"
  /\ call.op = "formatZodError"
  /\ result' = Returned(Str(formatZodError(call.issues)))
  /\ pc' = "done"
  /\ UNCHANGED <<call, hvars>>

SchemaParseCall ==
  /\ pc = "called"
  /\ call.op = "parse"
  /\ result' = SchemaParse(SchemaOf(call.schema), call.input)
  /\ pc' = "done"
  /\ UNCHANGED <<call, hvars>>

ParseWithSchemaCall ==
  /\ pc = "called"
  /\ call.op = "parseWithSchema"
  /\ result' = parseWithSchema(SchemaOf(call.schema), call.value, call.flagName)
  /\ pc' = "done"
  /\ UNCHANGED <<call, hvars>>

NormalizeCall ==
  /\ pc = "called"
  /\ call.op = "normalizeCLIConfig"
  /\ result' = normalizeCLIConfig(call.options)
  /\ pc' = "done"
  /\ UNCHANGED <<call, hvars>>

NormalizeCall2 ==
  /\ pc = "called"
  /\ call.op = "normalizeCLIConfig2"
  /\ result' = normalizeCLIConfig2(call.options)
  /\ pc' = "done"
  /\ UNCHANGED <<call, hvars>>

Next ==
  \/ ParseCLIOptionCall
  \/ ParseUnknownCall
  \/ FormatZodErrorCall
  \/ SchemaParseCall
  \/ ParseWithSchemaCall
  \/ NormalizeCall
  \/ NormalizeCall2

Spec == Init /\ [][Next]_vars

(***************************************************************************)
(* A process that calls normalizeCLIConfig several times and changes the   *)
(* records it got back.                                                    *)
(***************************************************************************)
InitProcess ==
  /\ call = [op |-> "process"]
  /\ pc = "process"
  /\ result = Returned(Undefined)
  /\ heap = InitialHeap
  /\ given = <<>>
  /\ returned = <<>>
  /\ mutations = 0

\* a caller builds an option record and calls the definition at config.ts:21
ProcessCall ==
  /\ Len(given) < MaxCalls
  /\ \E in \in HeapInputs :
       /\ given' = Append(given, Kept(AllocInput(heap, in).heap, AllocInput(heap, in).rec))
       /\ AfterCall(1, AllocInput(heap, in), normalizeCLIConfig(OptionsOf(in)))
  /\ UNCHANGED <<call, pc, result, mutations>>

\* a caller builds an option record and calls the definition at config.ts:167
ProcessCall2 ==
  /\ Len(given) < MaxCalls
  /\ \E in \in HeapInputs :
       /\ given' = Append(given, Kept(AllocInput(heap, in).heap, AllocInput(heap, in).rec))
       /\ AfterCall(2, AllocInput(heap, in), normalizeCLIConfig2(OptionsOf(in)))
  /\ UNCHANGED <<call, pc, result, mutations>>

\* a caller changes a list or a map of a record it got back
MutateReturned ==
  /\ mutations < MaxMutations
  /\ \E k \in 1..Len(returned) : \E f \in MutableNames :
       /\ returned[k].rec[f].t = "ref"
       /\ heap' = [heap EXCEPT ![returned[k].rec[f].a] = Mutated(@)]
       /\ returned' = [returned EXCEPT ![k].was = Deep(heap', returned[k].rec)]
  /\ mutations' = mutations + 1
  /\ UNCHANGED <<call, pc, result, given>>

NextProcess ==
  \/ ProcessCall
  \/ ProcessCall2
  \/ MutateReturned

SpecProcess == InitProcess /\ [][NextProcess]_vars

(***************************************************************************)
(* Properties.                                                             *)
(***************************************************************************)
Done(op) == pc = "done" /\ call.op = op

NormalizeDone == Done("normalizeCLIConfig") \/ Done("normalizeCLIConfig2")

\* s starts with the text p
StartsWith(s, p) == Len(s) >= Len(p) /\ SubSeq(s, 1, Len(p)) = p

\* options supplies f and no other property that a step tests
OnlySupplied(options, f) ==
  \A i \in 1..Len(Steps) : Steps[i] # f => options[Steps[i]] = Undefined

\* the schema the specification gives a structured property
SpecSchema(f) == IF f = "delay" THEN DelaySchema ELSE FieldSchema(f)

InvalidDataPrefix(flagName) == <<"Invalid data for \"">> \o flagName \o <<"\":\n">>

InvalidJSONPrefix(flagName) == <<"Invalid JSON for \"">> \o flagName \o <<"\": ">>

\* the call ended as r does: the same value for property f, or the same error
EndsAs(r, f) ==
  IF r.ok THEN result.ok /\ result.value[f] = r.value
  ELSE ~result.ok /\ result.message = r.message

\* C1: for every structured property that is supplied, normalizeCLIConfig chooses
\* the path by the runtime type of the value: a string is JSON-parsed and then
\* validated against the property's schema, any other value is validated against
\* the same schema without JSON parsing; a schema-valid structured value appears
\* in the output equal to the input, a schema-invalid one makes the call fail with
\* an 'Invalid data' error naming the flag.
C1_RuntimeTypeSelectsPath ==
  \A f \in StructuredNames :
    (NormalizeDone /\ OnlySupplied(call.options, f) /\ Truthy(call.options[f])) =>
      IF call.options[f].t = "string"
      THEN EndsAs(parseCLIOption(FlagOf(f), call.options[f].s, SpecSchema(f)), f)
      ELSE IF SafeParse(SpecSchema(f), call.options[f]).success
           THEN result.ok /\ result.value[f] = call.options[f]
           ELSE ~result.ok /\ StartsWith(result.message, InvalidDataPrefix(FlagOf(f)))

\* what the specification's cookie is: name and value are strings, domain, path and
\* url are strings when present, the other known fields have their types
OptionalOf(entries, k, types) == HasKey(entries, <<k>>) => Get(entries, <<k>>).t \in types

SpecCookie(v) ==
  /\ v.t = "object"
  /\ Get(v.entries, <<"name">>).t = "string"
  /\ Get(v.entries, <<"value">>).t = "string"
  /\ \A k \in {"domain", "path", "url"} : OptionalOf(v.entries, k, {"string"})
  /\ OptionalOf(v.entries, "expires", {"number"})
  /\ \A k \in {"httpOnly", "secure"} : OptionalOf(v.entries, k, {"boolean"})
  /\ HasKey(v.entries, <<"sameSite">>) =>
       Get(v.entries, <<"sameSite">>) \in {Str(<<"Strict">>), Str(<<"Lax">>), Str(<<"None">>)}

SpecCookies(v) ==
  \/ SpecCookie(v)
  \/ v.t = "array" /\ \A i \in 1..Len(v.items) : SpecCookie(v.items[i])

KeySet(v) == {v.entries[i].k : i \in 1..Len(v.entries)}

\* the same properties with the same values, in whatever order
SameFields(a, b) ==
  /\ a.t = "object" /\ b.t = "object"
  /\ KeySet(a) = KeySet(b)
  /\ \A k \in KeySet(a) : Get(a.entries, k) = Get(b.entries, k)

SameCookies(a, b) ==
  IF a.t = "array"
  THEN b.t = "array" /\ Len(a.items) = Len(b.items)
         /\ \A i \in 1..Len(a.items) : SameFields(a.items[i], b.items[i])
  ELSE SameFields(a, b)

\* C2: the cookie schema accepts one cookie or an array of cookies, requires only
\* name and value, accepts domain, path and url in any combination of present and
\* absent, and keeps unknown fields: parseCLIOption('--cookies', ...) returns
\* exactly the fields given.
C2_CookieRequiresOnlyNameAndValue ==
  (Done("parseCLIOption") /\ call.schema = "Cookies" /\ JSONParse(call.jsonString).ok
     /\ SpecCookies(JSONParse(call.jsonString).value)) =>
    result.ok /\ SameCookies(result.value, JSONParse(call.jsonString).value)

(* The JSON grammar (ECMA-404) as derivations: which texts are JSON.  Nothing here
   reads the parser above. *)
Blank(s) == \A i \in 1..Len(s) : s[i] = " "

\* s without its leading and trailing blanks
Trimmed(s) ==
  IF Blank(s) THEN <<>>
  ELSE SubSeq(s, CHOOSE a \in 1..Len(s) : s[a] # " " /\ \A i \in 1..(a - 1) : s[i] = " ",
                 CHOOSE b \in 1..Len(s) : s[b] # " " /\ \A i \in (b + 1)..Len(s) : s[i] = " ")

IsStringText(s) ==
  Len(s) >= 2 /\ s[1] = Q /\ s[Len(s)] = Q /\ \A i \in 2..(Len(s) - 1) : s[i] # Q

IsScalarText(s) ==
  \/ IsStringText(s)
  \/ Len(s) = 1 /\ (s[1] \in {"true", "false", "null"} \/ s[1] \in {ToString(n) : n \in Numerals})

RECURSIVE IsValueText(_)
RECURSIVE IsElementsText(_)
RECURSIVE IsMembersText(_)

\* value ::= string | number | literal | [ elements ] | { members }
IsValueText(s) ==
  \/ IsScalarText(s)
  \/ /\ Len(s) >= 2 /\ s[1] = "[" /\ s[Len(s)] = "]"
     /\ (Blank(SubSeq(s, 2, Len(s) - 1)) \/ IsElementsText(SubSeq(s, 2, Len(s) - 1)))
  \/ /\ Len(s) >= 2 /\ s[1] = "{" /\ s[Len(s)] = "}"
     /\ (Blank(SubSeq(s, 2, Len(s) - 1)) \/ IsMembersText(SubSeq(s, 2, Len(s) - 1)))

\* elements ::= ws value ws | ws value ws , elements
IsElementsText(s) ==
  \/ IsValueText(Trimmed(s))
  \/ \E k \in 1..Len(s) :
       /\ s[k] = ","
       /\ IsValueText(Trimmed(SubSeq(s, 1, k - 1)))
       /\ IsElementsText(SubSeq(s, k + 1, Len(s)))

\* member ::= ws string ws : ws value ws
IsMemberText(s) ==
  \E k \in 1..Len(s) :
    /\ s[k] = ":"
    /\ IsStringText(Trimmed(SubSeq(s, 1, k - 1)))
    /\ IsValueText(Trimmed(SubSeq(s, k + 1, Len(s))))

\* members ::= member | member , members
IsMembersText(s) ==
  \/ IsMemberText(s)
  \/ \E k \in 1..Len(s) :
       /\ s[k] = ","
       /\ IsMemberText(SubSeq(s, 1, k - 1))
       /\ IsMembersText(SubSeq(s, k + 1, Len(s)))

IsJSONText(s) == IsValueText(Trimmed(s))

\* C3: for every string that is not valid strict JSON, parseCLIOption with any
\* schema fails at the JSON stage, before the schema is consulted: the message
\* is 'Invalid JSON for "<flag>": ' followed by the parser's message, it is no
\* 'Invalid data' message, and no malformed input is repaired and accepted.
C3_MalformedFailsAtJSONStage ==
  (Done("parseCLIOption") /\ ~IsJSONText(call.jsonString)) =>
    /\ ~result.ok
    /\ StartsWith(result.message, InvalidJSONPrefix(call.flagName))
    /\ Len(result.message) > Len(InvalidJSONPrefix(call.flagName))
    /\ SubSeq(result.message, Len(InvalidJSONPrefix(call.flagName)) + 1,
              Len(result.message))
         \in {<<"Unexpected end of JSON input">>} \cup
             {<<"Unexpected token ", call.jsonString[i], " in JSON at position ",
                ToString(i - 1)>> : i \in 1..Len(call.jsonString)}
    /\ result.message[1] # "Invalid data for \""

\* C3 happens: a text with a trailing comma is rejected as invalid JSON
C3_Witness ==
  /\ Done("parseCLIOption")
  /\ call.jsonString = <<"{", Q, "a", Q, ":", " ", "1", ",", "}">>
  /\ call.schema = "Headers"
  /\ ~result.ok
  /\ result.message[1] = "Invalid JSON for \""

\* the value a finished parseCLIOption or parseUnknown call validated
ValidatedValue ==
  IF call.op = "parseUnknown" THEN call.data ELSE JSONParse(call.jsonString).value

\* a parseCLIOption call whose text is JSON, or a parseUnknown call, has finished
SchemaStageDone ==
  \/ Done("parseUnknown")
  \/ Done("parseCLIOption") /\ JSONParse(call.jsonString).ok

Count(P) == IF P THEN 1 ELSE 0

\* the properties of an object that have none of the types
BadProps(v, types) == {i \in 1..Len(v.entries) : v.entries[i].v.t \notin types}

\* the elements of an array that are no strings
BadItems(v) == {i \in 1..Len(v.items) : v.items[i].t # "string"}

\* the n-th member of a set of indices, in increasing order
Nth(S, n) == CHOOSE i \in S : Cardinality({j \in S : j < i}) = n - 1

CookieViolations(v) ==
  IF v.t # "object" THEN 1
  ELSE Count(Get(v.entries, <<"name">>).t # "string")
       + Count(Get(v.entries, <<"value">>).t # "string")
       + Cardinality({k \in {"domain", "path", "url"} : ~OptionalOf(v.entries, k, {"string"})})
       + Count(~OptionalOf(v.entries, "expires", {"number"}))
       + Cardinality({k \in {"httpOnly", "secure"} : ~OptionalOf(v.entries, k, {"boolean"})})
       + Count(HasKey(v.entries, <<"sameSite">>)
                 /\ Get(v.entries, <<"sameSite">>)
                      \notin {Str(<<"Strict">>), Str(<<"Lax">>), Str(<<"None">>)})

RECURSIVE SumCookieViolations(_)
SumCookieViolations(items) ==
  IF items = <<>> THEN 0
  ELSE CookieViolations(Head(items)) + SumCookieViolations(Tail(items))

\* how many times a value violates a schema, counted from the schema's description
Violations(schema, v) ==
  CASE schema \in {"Headers", "OverrideHost"} ->
         IF v.t # "object" THEN 1 ELSE Cardinality(BadProps(v, {"string"}))
    [] schema = "FirefoxPrefs" ->
         IF v.t # "object" THEN 1
         ELSE Cardinality(BadProps(v, {"string", "number", "boolean"}))
    [] schema = "Auth" ->
         IF v.t # "object" THEN 1
         ELSE Count(Get(v.entries, <<"username">>).t # "string")
              + Count(Get(v.entries, <<"password">>).t # "string")
              + Count(~OptionalOf(v.entries, "origin", {"string"}))
              + Count(HasKey(v.entries, <<"send">>)
                        /\ Get(v.entries, <<"send">>)
                             \notin {Str(<<"unauthorized">>), Str(<<"always">>)})
    [] schema = "StringArray" ->
         IF v.t # "array" THEN 1 ELSE Cardinality(BadItems(v))
    [] schema = "Cookies" ->
         IF v.t = "array" THEN SumCookieViolations(v.items) ELSE CookieViolations(v)

\* the issue lines of an 'Invalid data' message
IssueLines(message, flagName) ==
  Split(SubSeq(message, Len(InvalidDataPrefix(flagName)) + 1, Len(message)), "\n")

\* the call failed with 'Invalid data for "<flag>":' and n formatted issue lines
InvalidDataWithLines(n) ==
  /\ ~result.ok
  /\ StartsWith(result.message, InvalidDataPrefix(call.flagName))
  /\ Len(IssueLines(result.message, call.flagName)) = n
  /\ \A i \in 1..n : StartsWith(IssueLines(result.message, call.flagName)[i], <<"  - ">>)

\* one line per element that is no string, its path the element's index
OneLinePerBadItem(v) ==
  /\ Len(IssueLines(result.message, call.flagName)) = Cardinality(BadItems(v))
  /\ \A n \in 1..Cardinality(BadItems(v)) :
       StartsWith(IssueLines(result.message, call.flagName)[n],
                  <<"  - ", ToString(Nth(BadItems(v), n) - 1), ": ">>)

\* C4 as stated: every JSON value that violates the schema makes parseCLIOption and
\* parseUnknown fail with 'Invalid data', the flag name and exactly one issue line
\* per violation; an array with elements of the wrong type, as cookies or as a
\* string list, gets one line per invalid element with the element's index as path.
C4_OneLinePerViolation ==
  (SchemaStageDone /\ Violations(call.schema, ValidatedValue) > 0) =>
    /\ InvalidDataWithLines(Violations(call.schema, ValidatedValue))
    /\ (call.schema \in {"Cookies", "StringArray"} /\ ValidatedValue.t = "array")
         => OneLinePerBadItem(ValidatedValue)

\* C4 amended: under the schemas that are no union at the top (headers, auth,
\* firefoxPrefs, overrideHost, string list) there is one issue line per violation,
\* and for a string list one line per element that is no string, its path the
\* element's index; under the cookies schema, a union, every violation gives
\* exactly one issue line, whose path is (root).
C4_OneLinePerViolationExceptUnion ==
  (SchemaStageDone /\ Violations(call.schema, ValidatedValue) > 0) =>
    IF call.schema = "Cookies"
    THEN /\ InvalidDataWithLines(1)
         /\ StartsWith(IssueLines(result.message, call.flagName)[1],
                       <<"  - ", "(root)", ": ">>)
    ELSE /\ InvalidDataWithLines(Violations(call.schema, ValidatedValue))
         /\ (call.schema = "StringArray" /\ ValidatedValue.t = "array")
              => OneLinePerBadItem(ValidatedValue)

\* C4 happens: [1, 2, 3] as a string list fails with three issue lines
C4_Witness ==
  /\ Done("parseUnknown")
  /\ call.schema = "StringArray"
  /\ call.data = Arr(<<Num(1), Num(2), Num(3)>>)
  /\ InvalidDataWithLines(3)

\* the values a supplied delay denotes: itself, or what its text says
DelaySupplied(options) ==
  IF options.delay.t = "string" THEN Denoted(JSONParse(options.delay.s))
  ELSE {options.delay}

\* C5: when delay is present, normalizeCLIConfig validates it against the delay
\* schema, a map from string keys to numbers: a map with a value that is no number,
\* or a value that is no map, makes the call fail with an 'Invalid data' error that
\* names --delay, and such a value is never copied into the returned configuration.
C5_DelayValidatedAgainstSchema ==
  (NormalizeDone /\ OnlySupplied(call.options, "delay") /\ Truthy(call.options.delay)) =>
    /\ \A v \in DelaySupplied(call.options) :
         ~SafeParse(DelaySchema, v).success =>
           ~result.ok /\ StartsWith(result.message, InvalidDataPrefix(<<"--delay">>))
    /\ result.ok => SafeParse(DelaySchema, result.value.delay).success

\* C6: delayUsing of the returned configuration is always 'fulfill' or 'continue':
\* the supplied value when that is exactly one of the two literals, the default in
\* every other case, and no error is raised.
C6_DelayUsingIsOneOfTwoLiterals ==
  NormalizeDone =>
    /\ OnlySupplied(call.options, "delayUsing") => result.ok
    /\ result.ok =>
         /\ result.value.delayUsing \in {Str(<<"fulfill">>), Str(<<"continue">>)}
         /\ result.value.delayUsing =
              IF call.options.delayUsing \in {Str(<<"fulfill">>), Str(<<"continue">>)}
              THEN call.options.delayUsing
              ELSE DEFAULT_OPTIONS.delayUsing

\* C7: for width, height, frameRate and timeout normalizeCLIConfig returns the
\* supplied value whenever one is supplied, a numeric 0 included, and the default
\* only when the property is undefined; {url} alone gives width 1366.
C7_ZeroIsKeptDefaultOnlyForUndefined ==
  (NormalizeDone /\ result.ok) =>
    /\ \A f \in {"width", "height", "frameRate", "timeout"} :
         result.value[f] = IF call.options[f] = Undefined THEN DEFAULT_OPTIONS[f]
                           ELSE call.options[f]
    /\ call.options = BaseOptions => result.value.width = Num(1366)

\* C7 happens: a supplied width of 0 is returned as 0
C7_Witness ==
  /\ NormalizeDone
  /\ call.options.width = Num(0)
  /\ result.ok
  /\ result.value.width = Num(0)
  /\ result.value.height = DEFAULT_OPTIONS.height

\* where the comma-separated tokens of a text start
TokenStarts(s) == {i \in 1..Len(s) : s[i] # "," /\ (i = 1 \/ s[i - 1] = ",")}

\* the end of the token that starts at i
TokenEnd(s, i) ==
  CHOOSE j \in i..Len(s) :
    /\ \A k \in i..j : s[k] # ","
    /\ j = Len(s) \/ s[j + 1] = ","

\* the non-empty tokens between the commas of a text, in order
Tokens(s) ==
  [n \in 1..Cardinality(TokenStarts(s)) |->
     Str(SubSeq(s, Nth(TokenStarts(s), n), TokenEnd(s, Nth(TokenStarts(s), n))))]

BracketEntry(e) == \E i \in 1..Len(e.s) : e.s[i] = "["

IsStringList(v) == v.t = "array" /\ \A i \in 1..Len(v.items) : v.items[i].t = "string"

\* an entry with '[' that is JSON for a list of strings
GoodBracketEntry(e) == IsJSONText(e.s) /\ IsStringList(JSONParse(e.s).value)

\* what one entry of block or blockDomains stands for
EntryResult(e) == IF BracketEntry(e) THEN JSONParse(e.s).value.items ELSE Tokens(e.s)

RECURSIVE ConcatAll(_)
ConcatAll(lists) == IF lists = <<>> THEN <<>> ELSE Head(lists) \o ConcatAll(Tail(lists))

\* C8: every entry of block and blockDomains is interpreted on its own, an entry
\* with '[' as JSON for a list of strings, any other entry as comma-separated tokens
\* with the empty ones dropped; the field is the concatenation of the per-entry
\* results in input order, nothing reordered, deduplicated or lost.
C8_ConcatenatesEntriesInInputOrder ==
  \A f \in {"block", "blockDomains"} :
    (NormalizeDone /\ result.ok /\ call.options[f] # Undefined) =>
      /\ \A i \in 1..Len(call.options[f].items) :
           BracketEntry(call.options[f].items[i]) => GoodBracketEntry(call.options[f].items[i])
      /\ result.value[f] =
           Arr(ConcatAll([i \in 1..Len(call.options[f].items) |->
                            EntryResult(call.options[f].items[i])]))

\* C8 happens: 'c', '["b","a,c","b"]', 'a,c' become c, b, 'a,c', b, a, c
C8_Witness ==
  /\ NormalizeDone
  /\ call.options.block =
       Arr(<<Str(<<"c">>), Str(ArrayText(<<JText("b"), <<Q, "a", ",", "c", Q>>, JText("b")>>)),
             Str(<<"a", ",", "c">>)>>)
  /\ result.ok
  /\ result.value.block =
       Arr(<<Str(<<"c">>), Str(<<"b">>), Str(<<"a", ",", "c">>), Str(<<"b">>),
             Str(<<"a">>), Str(<<"c">>)>>)

\* the entries of a list that fail: they hold '[' and are no JSON list of strings
FailingEntries(list) ==
  {i \in 1..Len(list.items) :
     BracketEntry(list.items[i]) /\ ~GoodBracketEntry(list.items[i])}

ListFails(options, f) == options[f] # Undefined /\ FailingEntries(options[f]) # {}

\* the error of the first failing entry, as JSON.parse or the schema stage words it
InnerMessage(flagName, e) ==
  IF JSONParse(e.s).ok THEN parseUnknown(flagName, JSONParse(e.s).value, StringArraySchema).message
  ELSE JSONParse(e.s).message

ProblemPrefix(flagName) == <<"Problem parsing \"">> \o flagName \o <<"\" options - ">>

\* nothing that runs before the parsing of f fails
FirstToFail(options, f) ==
  /\ \A s \in StructuredNames : options[s] = Undefined
  /\ f = "blockDomains" => ~ListFails(options, "block")

\* C9: every failure while parsing block or blockDomains, a JSON syntax failure of
\* an entry with '[' as well as a string-list schema failure, surfaces as one error
\* whose message starts with 'Problem parsing "<flag>" options - ' for the flag that
\* failed and ends with the inner error's message unchanged; no other failure
\* carries that prefix.
C9_ListFailureNamesItsFlag ==
  \A f \in {"block", "blockDomains"} :
    /\ (NormalizeDone /\ FirstToFail(call.options, f) /\ ListFails(call.options, f)) =>
         /\ ~result.ok
         /\ result.message =
              ProblemPrefix(FlagOf(f))
                \o InnerMessage(FlagOf(f),
                                call.options[f].items[Nth(FailingEntries(call.options[f]), 1)])
    /\ (NormalizeDone /\ ~result.ok /\ StartsWith(result.message, ProblemPrefix(FlagOf(f)))) =>
         ListFails(call.options, f)

\* C9 happens: blockDomains with a single-quoted list fails under its own flag
C9_Witness ==
  /\ NormalizeDone
  /\ call.options.block = Undefined
  /\ call.options.blockDomains =
       Arr(<<Str(<<"a">>),
             Str(<<"[", " ", "'", "one", "'", ",", " ", "'", "two", "'", " ", "]">>)>>)
  /\ ~result.ok
  /\ StartsWith(result.message,
                <<"Problem parsing \"", "--blockDomains", "\" options - ", "Unexpected token ">>)

\* where a text breaks into lines
Breaks(s) == {i \in 1..Len(s) : s[i] = "\n"}

\* the n-th line of a text
Line(s, n) ==
  SubSeq(s,
         IF n = 1 THEN 1 ELSE Nth(Breaks(s), n - 1) + 1,
         IF n = Cardinality(Breaks(s)) + 1 THEN Len(s) ELSE Nth(Breaks(s), n) - 1)

\* the segments of a path with a '.' between neighbours, built from the last one
RECURSIVE Dotted(_)
Dotted(path) ==
  IF Len(path) = 1 THEN SegmentText(path[1])
  ELSE Dotted(SubSeq(path, 1, Len(path) - 1)) \o <<".">> \o SegmentText(path[Len(path)])

PathText(path) == IF path = <<>> THEN <<"(root)">> ELSE Dotted(path)

\* C10: formatZodError renders n issues as exactly n lines in the order of the
\* issues; each line is '  - ', the path segments joined with '.' or '(root)' for
\* an empty path, ': ' and the issue's message.
C10_OneLinePerIssueInOrder ==
  Done("formatZodError") =>
    IF call.issues = <<>> THEN result.value = Str(<<>>)
    ELSE /\ Cardinality(Breaks(result.value.s)) + 1 = Len(call.issues)
         /\ \A n \in 1..Len(call.issues) :
              Line(result.value.s, n) =
                <<"  - ">> \o PathText(call.issues[n].path) \o <<": ">>
                  \o call.issues[n].message

\* C10 happens: a root issue and a nested one give two lines in that order
C10_Witness ==
  /\ Done("formatZodError")
  /\ call.issues = <<Issue(<<>>, <<"Invalid input">>),
                     Issue(<<Num(1), Str(<<"name">>)>>, <<"Invalid input">>)>>
  /\ result.value =
       Str(<<"  - ", "(root)", ": ", "Invalid input", "\n",
             "  - ", "1", ".", "name", ": ", "Invalid input">>)

(* Decimal notation as a table: every text that spells a number, with the number
   it spells in hundredths.  Nothing here reads StringToNumber. *)
Signs == {[text |-> <<>>, m |-> 1], [text |-> <<"+">>, m |-> 1], [text |-> <<"-">>, m |-> 0 - 1]}

WholeParts == {[text |-> <<ToString(n)>>, h |-> 100 * n] : n \in DigitStrings}

FractionParts ==
  {[text |-> <<".", ToString(n)>>, h |-> IF n < 10 THEN 10 * n ELSE n] : n \in DigitStrings}

UnsignedLiterals ==
  WholeParts
  \cup {[text |-> w.text \o <<".">>, h |-> w.h] : w \in WholeParts}
  \cup FractionParts
  \cup {[text |-> w.text \o f.text, h |-> w.h + f.h] : w \in WholeParts, f \in FractionParts}

DecimalLiterals ==
  {[text |-> s.text \o u.text, h |-> s.m * u.h] : s \in Signs, u \in UnsignedLiterals}

\* the number a string or number input stands for, in hundredths; empty when none
NumericValue(x) ==
  IF x.t = "number" THEN (IF IsNaN(x) THEN {} ELSE {Hundredths(x)})
  ELSE IF Blank(x.s) THEN {0}
  ELSE {l.h : l \in {m \in DecimalLiterals : m.text = Trimmed(x.s)}}

\* the input satisfies the schema: positive, and integral under the integer schema
SatisfiesNumeric(schema, x) ==
  \E h \in NumericValue(x) : h > 0 /\ (schema = "PositiveInt" => h % 100 = 0)

\* the call returned the number the input stands for
ReturnedCoerced(x) ==
  /\ result.ok
  /\ result.value.t = "number"
  /\ ~IsNaN(result.value)
  /\ Hundredths(result.value) \in NumericValue(x)

\* C11: the positive-integer and positive-float schemas accept a string or number
\* exactly when its numeric coercion is a number greater than zero (and integral
\* under the integer schema) and then return the coerced number; "0", negative
\* values, non-numeric strings and the empty string fail under both, "3.5" fails
\* under the integer schema.
C11_AcceptsExactlyPositiveNumbers ==
  (Done("parse") /\ call.input.t \in {"string", "number"}) =>
    IF SatisfiesNumeric(call.schema, call.input) THEN ReturnedCoerced(call.input)
    ELSE ~result.ok

\* C11 happens: "4.5" is 4.5 under the float schema
C11_Witness ==
  /\ Done("parse")
  /\ call.schema = "PositiveFloat"
  /\ call.input = Str(<<"4", ".", "5">>)
  /\ result = Returned(Dec(450))

\* sub occurs in s as a run of neighbours
Contains(s, sub) ==
  \E i \in 0..(Len(s) - Len(sub)) : SubSeq(s, i + 1, i + Len(sub)) = sub

\* how a string or number input is written
LiteralOf(x) ==
  IF x.t = "string" THEN x.s
  ELSE IF IsNaN(x) THEN <<"NaN">>
  ELSE IF Hundredths(x) % 100 = 0 THEN <<ToString(Hundredths(x) \div 100)>>
  ELSE CHOOSE l \in {m.text : m \in DecimalLiterals} :
         /\ \E m \in DecimalLiterals : m.text = l /\ m.h = Hundredths(x)
         /\ l[1] # "+"
         /\ Len(l) = (IF Hundredths(x) < 0 THEN 4 ELSE 3)
         /\ l[Len(l) - 1] = "."

\* C12: parseWithSchema(schema, value, flagName) returns the coerced number when the
\* value satisfies the positive-integer or positive-float schema, and for every
\* other value throws an error whose message contains the offending literal value
\* and the flag name.
C12_FailureNamesValueAndFlag ==
  (Done("parseWithSchema") /\ call.value.t \in {"string", "number"}) =>
    IF SatisfiesNumeric(call.schema, call.value) THEN ReturnedCoerced(call.value)
    ELSE /\ ~result.ok
         /\ Contains(result.message, LiteralOf(call.value))
         /\ Contains(result.message, call.flagName)

\* C12 happens: 'abc' for --width fails with both in the message
C12_Witness ==
  /\ Done("parseWithSchema")
  /\ call.schema = "PositiveInt"
  /\ call.value = Str(<<"abc">>)
  /\ call.flagName = <<"--width">>
  /\ ~result.ok
  /\ Contains(result.message, <<"abc">>)
  /\ Contains(result.message, <<"--width">>)

\* what validating a present structured field gives: a string is JSON-parsed and
\* validated, any other value is validated, against the field's schema
FieldValidation(options, f) ==
  IF options[f].t = "string" THEN parseCLIOption(FlagOf(f), options[f].s, SpecSchema(f))
  ELSE parseUnknown(FlagOf(f), options[f], SpecSchema(f))

\* the field a step tests is present and fails its validation
FieldFails(options, step) ==
  CASE step \in StructuredNames -> Truthy(options[step]) /\ ~FieldValidation(options, step).ok
    [] step \in {"block", "blockDomains"} -> ListFails(options, step)
    [] step = "uploadUrl" ->
         Truthy(options.uploadUrl) /\ ~ValidURL(ToStringJS(options.uploadUrl))
    [] OTHER -> FALSE

\* the steps whose field fails
FailingSteps(options) == {i \in 1..Len(Steps) : FieldFails(options, Steps[i])}

\* the error of a failing field
FieldError(options, step) ==
  CASE step \in StructuredNames -> FieldValidation(options, step).message
    [] step \in {"block", "blockDomains"} ->
         ProblemPrefix(FlagOf(step))
           \o InnerMessage(FlagOf(step), options[step].items[Nth(FailingEntries(options[step]), 1)])
    [] step = "uploadUrl" -> <<"--uploadUrl must be a valid URL">>

\* the property of config was assigned by its step
Processed(r, step) == \E k \in 1..Len(r.assigned) : r.assigned[k] = Target(step)

\* C13: normalizeCLIConfig is fail-fast: as soon as one field fails validation
\* (structured field, block or blockDomains, uploadUrl) the call ends with that
\* field's error, no later field is processed and no record is returned; a record
\* is returned only when every present field validated.
C13_FailFast ==
  NormalizeDone =>
    /\ FailingSteps(call.options) # {} =>
         /\ ~result.ok
         /\ result.message = FieldError(call.options, Steps[Nth(FailingSteps(call.options), 1)])
         /\ \A i \in Nth(FailingSteps(call.options), 1)..Len(Steps) :
              ~Processed(result, Steps[i])
    /\ result.ok => FailingSteps(call.options) = {}

\* C14: normalizeCLIConfig never modifies its input record, and the record it
\* returns shares no mutable data with the input, the defaults table or any other
\* returned record: whatever calls were made and whichever list or map of a
\* returned record was changed, every input still has the content it was given,
\* the defaults are what they were, and every returned record has the content its
\* owner last gave it.
C14_NothingShared ==
  /\ \A k \in 1..Len(given) : Deep(heap, given[k].rec) = given[k].was
  /\ Deep(heap, DefaultsOnHeap) = Deep(InitialHeap, DefaultsOnHeap)
  /\ \A k \in 1..Len(returned) : Deep(heap, returned[k].rec) = returned[k].was

\* the keys the auth and the cookie schema declare, in declaration order
AuthKeys == <<"username", "password", "origin", "send">>

CookieKeys ==
  <<"name", "value", "domain", "path", "expires", "httpOnly", "secure", "sameSite", "url">>

\* the properties of an object under the given keys, in the order of the keys
RECURSIVE Picked(_, _)
Picked(keys, entries) ==
  IF keys = <<>> THEN <<>>
  ELSE (IF HasKey(entries, <<Head(keys)>>)
        THEN <<Prop(<<Head(keys)>>, Get(entries, <<Head(keys)>>))>>
        ELSE <<>>)
       \o Picked(Tail(keys), entries)

\* the properties of an object under none of the keys, in their own order
Others(keys, entries) ==
  SelectSeq(entries, LAMBDA e : \A i \in 1..Len(keys) : e.k # <<keys[i]>>)

\* a cookie as returned: the declared keys in declaration order, then the rest
CookieReturned(v) == Obj(Picked(CookieKeys, v.entries) \o Others(CookieKeys, v.entries))

\* what a successful validation returns for a value
ReturnedFor(schema, v) ==
  CASE schema = "Auth" -> Obj(Picked(AuthKeys, v.entries))
    [] schema = "Cookies" ->
         IF v.t = "array" THEN Arr([i \in 1..Len(v.items) |-> CookieReturned(v.items[i])])
         ELSE CookieReturned(v)
    [] OTHER -> v

\* C15 as stated: whenever parseCLIOption or parseUnknown succeeds on a structured
\* schema, the value returned is structurally identical to the value validated:
\* the same keys in the same order with the same values, the same array elements
\* in the same order.
C15_ReturnsInputUnchanged ==
  (SchemaStageDone /\ result.ok) => result.value = ValidatedValue

\* C15 amended: arrays keep their elements in order and maps (headers,
\* firefoxPrefs, overrideHost) their keys in order; an auth or cookie object is
\* returned with the keys its schema declares, in declaration order, each with the
\* input's value, followed for a cookie by its other keys in input order; the
\* other keys of an auth object are dropped.
C15_ReturnsDeclaredKeysInSchemaOrder ==
  (SchemaStageDone /\ result.ok) => result.value = ReturnedFor(call.schema, ValidatedValue)

\* C15 happens: an auth object with an unknown key is accepted without that key
C15_Witness ==
  /\ Done("parseCLIOption")
  /\ call.schema = "Auth"
  /\ call.jsonString = ObjectText(<<UserU, PassP, Member("extra", <<"1">>)>>)
  /\ result = Returned(Obj(<<Prop(<<"username">>, Str(<<"u">>)),
                             Prop(<<"password">>, Str(<<"p">>))>>))

\* the error a step would raise for the empty string, had it been parsed
EmptyTextError(step) ==
  IF step = "delay" THEN <<"Unexpected end of JSON input">>
  ELSE InvalidJSONPrefix(FlagOf(step)) \o <<"Unexpected end of JSON input">>

\* a property that is falsy is skipped: it raises none of the errors its step
\* can raise and is left as the object literal set it
SkippedAs(step, initial, errors) ==
  /\ OnlySupplied(call.options, step) => result.ok
  /\ result.ok => result.value[step] = initial
  /\ ~result.ok => result.message \notin errors

\* C16: in normalizeCLIConfig a structured field whose value is the empty string
\* is treated as absent: no error is raised for it and the returned record leaves
\* it unset (auth at its default), although the empty string given to
\* parseCLIOption fails with 'Invalid JSON'; cpuThrottle 0 and an empty uploadUrl
\* are skipped likewise and omitted from the result.
C16_FalsyFieldsAreSkipped ==
  /\ \A f \in StructuredNames :
       (NormalizeDone /\ call.options[f] = Str(<<>>)) =>
         SkippedAs(f, IF f = "auth" THEN DEFAULT_OPTIONS.auth ELSE Undefined,
                   {EmptyTextError(f)})
  /\ (NormalizeDone /\ call.options.cpuThrottle = Num(0)) =>
       SkippedAs("cpuThrottle", Undefined, {})
  /\ (NormalizeDone /\ call.options.uploadUrl = Str(<<>>)) =>
       SkippedAs("uploadUrl", Undefined, {<<"--uploadUrl must be a valid URL">>})
  /\ (Done("parseCLIOption") /\ call.jsonString = <<>>) =>
       ~result.ok /\ StartsWith(result.message, InvalidJSONPrefix(call.flagName))

\* C16 happens: an empty cookies text is skipped by the definition at config.ts:21
C16_Witness ==
  /\ Done("normalizeCLIConfig")
  /\ call.options.cookies = Str(<<>>)
  /\ call.options.cpuThrottle = Num(0)
  /\ result.ok
  /\ result.value.cookies = Undefined
  /\ result.value.cpuThrottle = Undefined

====
